---------------------------- MODULE Spec2Model ----------------------------
(***************************************************************************)
(* Model of the xray-logs ingestion pipeline (src/parse_logs.py): one run  *)
(* of process_log_file is a process that walks through START, mode         *)
(* selection, the offline hand-off (write_offline) or the DB-mode          *)
(* transaction (import_offline_buffer, the fresh-file loop, commit,        *)
(* truncation), one action per store operation or file operation.          *)
(*                                                                         *)
(* Text is abstracted to the tokens the code looks at: a source line is    *)
(* the outcome of LINE_RE on it (the named groups), whether it holds the   *)
(* self-call marker, and the tokens line.split() yields; a buffer line is  *)
(* the list of key/value pairs json.dump wrote.                            *)
(***************************************************************************)
EXTENDS Integers, Sequences, FiniteSets, TLC

(***************************************************************************)
(* Bounds of the model.                                                    *)
(***************************************************************************)
\* lines the proxy appends to the source file over a whole behaviour
MaxAppend == 2
\* invocations of the pipeline over a whole behaviour
MaxRuns == 2
\* configured batch threshold ([parser] batch_size)
BATCH_SIZE == 2

\* Python's None for text values, SQL NULL for integer columns
None == "None"
NULL == -1

(***************************************************************************)
(* Source lines.  g: the groups of LINE_RE (date and time joined, route    *)
(* already split on its separator and stripped); re: LINE_RE matched;      *)
(* marker: "api -> api" occurs in the line; ntok: len(line.split());       *)
(* tok01: parts[0] + " " + parts[1]; tok3: parts[3].split(":").            *)
(***************************************************************************)
NoGroups ==
  [ts |-> None, src_proto |-> None, src_ip |-> None, src_port |-> None,
   dst_proto |-> None, dst_host |-> None, dst_port |-> None,
   route |-> << >>, user |-> None]

\* 2024/01/15 10:23:45.123456 from 203.0.113.5:51234 accepted
\*   tcp:example.com:443 [in->out] email: user@example.com
LineFull ==
  [re |-> TRUE, marker |-> FALSE, ntok |-> 9, tok01 |-> "T1",
   tok3 |-> <<"203.0.113.5", "51234">>,
   g |-> [ts |-> "T1", src_proto |-> None, src_ip |-> "203.0.113.5",
          src_port |-> "51234", dst_proto |-> "tcp",
          dst_host |-> "example.com", dst_port |-> "443",
          route |-> <<"in", "out">>, user |-> "user@example.com"]]

\* 2024/01/16 08:00:00.5 from udp:203.0.113.5:51234 accepted //dns.local:53
LineBare ==
  [re |-> TRUE, marker |-> FALSE, ntok |-> 6, tok01 |-> "T2",
   tok3 |-> <<"udp", "203.0.113.5", "51234">>,
   g |-> [ts |-> "T2", src_proto |-> "udp", src_ip |-> "203.0.113.5",
          src_port |-> "51234", dst_proto |-> None,
          dst_host |-> "dns.local", dst_port |-> "53",
          route |-> << >>, user |-> None]]

\* not a log line
LineJunk ==
  [re |-> FALSE, marker |-> FALSE, ntok |-> 4, tok01 |-> "not a",
   tok3 |-> <<"line">>, g |-> NoGroups]

\* 2024/13/45 10:23:45.1 from 203.0.113.5:51234 accepted tcp:example.com:443
\* (matches LINE_RE, but is no calendar date)
LineBadTs ==
  [re |-> TRUE, marker |-> FALSE, ntok |-> 6, tok01 |-> "Tbad",
   tok3 |-> <<"203.0.113.5", "51234">>,
   g |-> [ts |-> "Tbad", src_proto |-> None, src_ip |-> "203.0.113.5",
          src_port |-> "51234", dst_proto |-> "tcp",
          dst_host |-> "example.com", dst_port |-> "443",
          route |-> << >>, user |-> None]]

\* 2024/01/15 10:23:45.123456 from 127.0.0.1:40000 accepted api -> api
LineSelf ==
  [re |-> FALSE, marker |-> TRUE, ntok |-> 8, tok01 |-> "T1",
   tok3 |-> <<"127.0.0.1", "40000">>, g |-> NoGroups]

\* api -> api   (the marker alone: three tokens, no parts[3])
LineSelfShort ==
  [re |-> FALSE, marker |-> TRUE, ntok |-> 3, tok01 |-> "api ->",
   tok3 |-> << >>, g |-> NoGroups]

\* 2024/01/15 10:23:45.123456 from tcp:127.0.0.1:40000 accepted api -> api
\* (parts[3].split(":") is tcp, 127.0.0.1, 40000: the port read is 127.0.0.1)
LineSelfPort ==
  [re |-> FALSE, marker |-> TRUE, ntok |-> 8, tok01 |-> "T1",
   tok3 |-> <<"tcp", "127.0.0.1", "40000">>, g |-> NoGroups]

\* 2024/01/15 10:23:45.123456 from 127.0.0.1:40000 accepted
\*   tcp:127.0.0.1:8080 [api -> api]     (marker inside a matching line)
LineSelfRoute ==
  [re |-> TRUE, marker |-> TRUE, ntok |-> 9, tok01 |-> "T1",
   tok3 |-> <<"127.0.0.1", "40000">>,
   g |-> [ts |-> "T1", src_proto |-> None, src_ip |-> "127.0.0.1",
          src_port |-> "40000", dst_proto |-> "tcp",
          dst_host |-> "127.0.0.1", dst_port |-> "8080",
          route |-> <<"api", "api">>, user |-> None]]

\* the lines parse_line is applied to in this model
Lines ==
  {LineFull, LineBare, LineJunk, LineBadTs, LineSelf, LineSelfShort,
   LineSelfPort, LineSelfRoute}

\* the lines the proxy writes while invocations run: one of each way a line
\* goes through a run (two loadable records, no match, bad timestamp,
\* IndexError in parse_line, ValueError in int())
ProxyLines ==
  {LineFull, LineBare, LineJunk, LineBadTs, LineSelfShort, LineSelfPort}

(***************************************************************************)
(* Python helpers, computed as Python computes them.                       *)
(***************************************************************************)
\* truthiness of an optional string: None and "" are falsy
Truthy(v) == v # None /\ v # ""

\* a or b
OrElse(a, b) == IF Truthy(a) THEN a ELSE b

\* int(s): the decimal strings of this model; anything else raises ValueError
IntTable ==
  [s \in {"51234", "40000", "443", "53", "8080"} |->
     CASE s = "51234" -> 51234
       [] s = "40000" -> 40000
       [] s = "443" -> 443
       [] s = "53" -> 53
       [] s = "8080" -> 8080]

IsInt(s) == s \in DOMAIN IntTable

int(s) == IntTable[s]

\* datetime.strptime(s, "%Y/%m/%d %H:%M:%S.%f"): [date, time] or ValueError
TimeTable ==
  [s \in {"T1", "T2"} |->
     CASE s = "T1" -> [date |-> 20240115, time |-> 102345]
       [] s = "T2" -> [date |-> 20240116, time |-> 80000]]

IsTime(s) == s \in DOMAIN TimeTable

strptime(s) == TimeTable[s]

NoTime == [date |-> 0, time |-> 0]

(***************************************************************************)
(* parse_line: [exc, data].  exc = "IndexError" when the self-call branch  *)
(* indexes a token that is not there; data = None for "no match".          *)
(***************************************************************************)
FieldNames ==
  {"timestamp", "source_ip", "source_port", "dest_protocol", "dest_host",
   "dest_port", "inbound_tag", "outbound_tag", "email"}

NoData == [k \in FieldNames |-> None]

SelfCallData(line) ==
  [timestamp |-> line.tok01,
   source_ip |-> line.tok3[1],
   source_port |-> line.tok3[2],
   dest_protocol |-> None,
   dest_host |-> None,
   dest_port |-> None,
   inbound_tag |-> "api",
   outbound_tag |-> "api",
   email |-> None]

MatchData(d) ==
  \* route_raw present and split into exactly two stripped parts
  LET two == Len(d.route) = 2
  IN [timestamp |-> IF Truthy(d.ts) THEN d.ts ELSE None,
      source_ip |-> d.src_ip,
      source_port |-> d.src_port,
      dest_protocol |-> OrElse(d.dst_proto, d.src_proto),
      dest_host |-> d.dst_host,
      dest_port |-> d.dst_port,
      inbound_tag |-> IF two THEN d.route[1] ELSE None,
      outbound_tag |-> IF two THEN d.route[2] ELSE None,
      email |-> d.user]

parse_line(line) ==
  IF ~line.re
  THEN IF line.marker
       THEN IF line.ntok < 4 \/ Len(line.tok3) < 2
            THEN [exc |-> "IndexError", match |-> FALSE, data |-> NoData]
            ELSE [exc |-> "none", match |-> TRUE, data |-> SelfCallData(line)]
       ELSE [exc |-> "none", match |-> FALSE, data |-> NoData]
  ELSE [exc |-> "none", match |-> TRUE, data |-> MatchData(line.g)]

(***************************************************************************)
(* The offline record (write_offline) and its JSON line.  A JSON value is  *)
(* null or a quoted string; a buffer line is the ordered key/value pairs   *)
(* of one object.                                                          *)
(***************************************************************************)
RecordKeys ==
  <<"timestamp", "source_ip", "source_port", "dest_protocol", "dest_host",
    "dest_port", "inbound_tag", "outbound_tag", "email", "action">>

\* (the record keeps no user)
OfflineRecord_no_email(data) ==
  [timestamp |-> data.timestamp,
   source_ip |-> data.source_ip,
   source_port |-> data.source_port,
   dest_protocol |-> data.dest_protocol,
   dest_host |-> data.dest_host,
   dest_port |-> data.dest_port,
   inbound_tag |-> data.inbound_tag,
   outbound_tag |-> data.outbound_tag,
   email |-> None,
   action |-> "accepted"]

OfflineRecord(data) ==
  [timestamp |-> data.timestamp,
   source_ip |-> data.source_ip,
   source_port |-> data.source_port,
   dest_protocol |-> data.dest_protocol,
   dest_host |-> data.dest_host,
   dest_port |-> data.dest_port,
   inbound_tag |-> data.inbound_tag,
   outbound_tag |-> data.outbound_tag,
   email |-> data.email,
   action |-> "accepted"]

JsonValue(v) == IF v = None THEN [t |-> "null", s |-> ""] ELSE [t |-> "str", s |-> v]

PyValue(j) == IF j.t = "null" THEN None ELSE j.s

\* json.dump(record, f_out) followed by "\n"
json_dump(record) ==
  [kind |-> "json",
   pairs |-> [i \in 1..Len(RecordKeys) |->
                <<RecordKeys[i], JsonValue(record[RecordKeys[i]])>>]]

\* json.loads(line) of an object line: the dict of its pairs
json_loads(bline) ==
  LET keys == {bline.pairs[i][1] : i \in 1..Len(bline.pairs)}
      last(k) == CHOOSE i \in 1..Len(bline.pairs) :
                   /\ bline.pairs[i][1] = k
                   /\ \A j \in 1..Len(bline.pairs) : bline.pairs[j][1] = k => j <= i
  IN [k \in keys |-> PyValue(bline.pairs[last(k)][2])]

\* rec.get(key) and rec.get(key, default)
get(rec, key) == IF key \in DOMAIN rec THEN rec[key] ELSE None

getd(rec, key, default) == IF key \in DOMAIN rec THEN rec[key] ELSE default

(***************************************************************************)
(* State.                                                                  *)
(***************************************************************************)
Tables == {"users", "protocols", "endpoints", "tags"}

Runs == {1, 2}

VARIABLES
  source,      \* the source log file: its lines
  srcExists,   \* os.path.exists(logfile)
  buffer,      \* the offline buffer file: its lines
  bufExists,   \* os.path.exists(offline_file)
  partitioned, \* logs is a partitioned table (the migration has run)
  dims,        \* committed dimension rows, per table: [key, id]
  seqv,        \* the id sequence of each dimension table (not transactional)
  parts,       \* committed daily partitions: their dates
  facts,       \* committed rows of logs, in insertion order
  run,         \* the invocations: program counter and locals of each
  nruns,       \* invocations started so far
  nappend,     \* lines appended by the proxy so far
  faulted,     \* the environment has failed a statement or a file operation
  origin,      \* history: the source lines whose records the buffer holds
  written      \* history: the lines with a record that the proxy has appended

vars ==
  <<source, srcExists, buffer, bufExists, partitioned, dims, seqv,
    parts, facts, run, nruns, nappend, faulted, origin, written>>

files == <<source, srcExists, buffer, bufExists, origin>>

store == <<dims, seqv, parts, facts>>

env == <<partitioned, nappend, faulted, written>>

ZeroStats ==
  [users |-> 0, protocols |-> 0, endpoints |-> 0, tags |-> 0,
   processed |-> 0, failed |-> 0]

NoSnapshot ==
  [source |-> << >>, srcExists |-> FALSE, buffer |-> << >>,
   bufExists |-> FALSE, origin |-> << >>,
   dims |-> [t \in Tables |-> {}], seqv |-> [t \in Tables |-> 0],
   parts |-> {}, facts |-> << >>]

Snapshot ==
  [source |-> source, srcExists |-> srcExists, buffer |-> buffer,
   bufExists |-> bufExists, origin |-> origin,
   dims |-> dims, seqv |-> seqv, parts |-> parts, facts |-> facts]

\* the locals of one invocation of process_log_file, before it starts
InitRun ==
  [pc |-> "idle",
   up |-> FALSE,               \* the store accepts this invocation's connection
   mode |-> "none",            \* "offline" or "db" once selected
   conn |-> "none",            \* "open", "closed"
   tx |-> "none",              \* "open", "committed", "rolledback"
   err |-> "none",             \* the exception that left the try block
   caches |-> [t \in Tables |-> {}],
   partition_cache |-> {},
   stats |-> ZeroStats,
   batch |-> << >>,            \* import_offline_buffer's batch
   log_batch |-> << >>,
   isPartitioned |-> FALSE,
   txDims |-> [t \in Tables |-> {}],
   txParts |-> {},
   txFacts |-> << >>,
   phase |-> "none",           \* "replay", "fresh"
   pos |-> 0,                  \* lines read from the file being iterated
   cur |-> NoData,             \* the record being resolved
   log_time |-> NoTime,
   k |-> 0,                    \* the resolve_id call in progress, 1..5
   ids |-> << >>,              \* ids resolved for the current record
   lost |-> FALSE,             \* history: an insert of this run was a no-op
   exported |-> FALSE,         \* export_stats was called
   report |-> ZeroStats,       \* the statistics handed to export_stats
   pre |-> NoSnapshot]         \* history: files and store at START

Init ==
  /\ source = << >>
  /\ srcExists = FALSE
  /\ buffer = << >>
  /\ bufExists = FALSE
  /\ partitioned \in BOOLEAN
  /\ dims = [t \in Tables |-> {}]
  /\ seqv = [t \in Tables |-> 0]
  /\ parts = {}
  /\ facts = << >>
  /\ run = [r \in Runs |-> InitRun]
  /\ nruns = 0
  /\ nappend = 0
  /\ faulted = FALSE
  /\ origin = << >>
  /\ written = << >>

AllIdle == \A r \in Runs : run[r].pc = "idle"

\* the line yields a record with a timestamp strptime accepts
\* parse_line of every line of the model, computed once
Parsed == [line \in Lines |-> parse_line(line)]

LineParses(line) == Parsed[line].exc = "none" /\ Parsed[line].match

LineValid(line) == LineParses(line) /\ IsTime(Parsed[line].data["timestamp"])

(***************************************************************************)
(* The environment: the proxy appends a line between invocations.         *)
(***************************************************************************)
ProxyAppend(line) ==
  /\ AllIdle
  /\ nappend < MaxAppend
  /\ source' = Append(source, line)
  /\ srcExists' = TRUE
  /\ nappend' = nappend + 1
  /\ written' = IF LineValid(line) THEN Append(written, line) ELSE written
  /\ UNCHANGED <<buffer, bufExists, origin, partitioned, faulted, store, run,
                 nruns>>

(***************************************************************************)
(* process_log_file: START and mode selection.                             *)
(***************************************************************************)
\* (only a missing file ends the run at START)
NothingToDo_missing_only == ~srcExists

\* not os.path.exists(logfile) or os.path.getsize(logfile) == 0
NothingToDo == ~srcExists \/ Len(source) = 0

\* up: whether the store is reachable while this invocation runs (a failure
\* after a successful connect is StoreError)
Start(r) ==
  /\ run[r].pc = "idle"
  /\ nruns < MaxRuns
  /\ nruns' = nruns + 1
  /\ \E up \in BOOLEAN :
       run' = [run EXCEPT ![r].pc = IF NothingToDo THEN "done" ELSE "connect",
                          ![r].up = up,
                          ![r].pre = Snapshot]
  /\ UNCHANGED <<files, env, store>>

\* one invocation at a time: the scheduler starts the next when the last ended
StartAlone ==
  /\ AllIdle
  /\ Start(1)

\* (a connection whatever the store does)
get_db_connection_always(up) == "open"

\* get_db_connection: a connection, or None when psycopg.connect fails
get_db_connection(up) == IF up THEN "open" ELSE "none"

Connect(r) ==
  /\ run[r].pc = "connect"
  /\ LET conn == get_db_connection(run[r].up)
     IN run' = IF conn = "none"
               THEN [run EXCEPT ![r].mode = "offline", ![r].pc = "off_open"]
               ELSE [run EXCEPT ![r].mode = "db", ![r].conn = conn,
                                ![r].pc = "is_partitioned"]
  /\ UNCHANGED <<files, env, store, nruns>>

(***************************************************************************)
(* write_offline.                                                          *)
(***************************************************************************)
\* open(logfile, "r"), open(offline_file, "a")
OfflineOpen(r) ==
  /\ run[r].pc = "off_open"
  /\ bufExists' = TRUE
  /\ run' = [run EXCEPT ![r].pc = "off_line", ![r].pos = 0]
  /\ UNCHANGED <<source, srcExists, buffer, origin, env, store, nruns>>

\* one turn of "for line in f_in"
OfflineLine(r) ==
  /\ run[r].pc = "off_line"
  /\ run[r].pos < Len(source)
  /\ LET line == source[run[r].pos + 1]
         p == parse_line(line)
     IN IF p.exc # "none"
        THEN /\ run' = [run EXCEPT ![r].pc = "crashed", ![r].err = p.exc]
             /\ UNCHANGED <<buffer, origin>>
        ELSE IF ~p.match
        THEN /\ run' = [run EXCEPT ![r].pos = @ + 1, ![r].stats.failed = @ + 1]
             /\ UNCHANGED <<buffer, origin>>
        ELSE /\ buffer' = Append(buffer, json_dump(OfflineRecord(p.data)))
             /\ origin' = Append(origin, line)
             /\ run' = [run EXCEPT ![r].pos = @ + 1, ![r].stats.processed = @ + 1]
  /\ UNCHANGED <<source, srcExists, bufExists, env, store, nruns>>

\* (the log file is cleared after its first line)
OfflineTruncate_early(r) ==
  /\ run[r].pc = "off_line"
  /\ run[r].pos >= 1
  /\ source' = << >>
  /\ srcExists' = TRUE
  /\ run' = [run EXCEPT ![r].pc = "stats"]
  /\ UNCHANGED <<buffer, bufExists, origin, env, store, nruns>>

\* "for line in f_in" meets the end of the file; the with block closes both
\* files
OfflineEnd(r) ==
  /\ run[r].pc = "off_line"
  /\ run[r].pos >= Len(source)
  /\ run' = [run EXCEPT ![r].pc = "off_trunc"]
  /\ UNCHANGED <<files, env, store, nruns>>

\* open(logfile, "w"); f.truncate(0)
OfflineTruncate(r) ==
  /\ run[r].pc = "off_trunc"
  /\ source' = << >>
  /\ srcExists' = TRUE
  /\ run' = [run EXCEPT ![r].pc = "stats"]
  /\ UNCHANGED <<buffer, bufExists, origin, env, store, nruns>>

(***************************************************************************)
(* The store as one transaction sees it (READ COMMITTED): the committed    *)
(* rows and its own uncommitted ones.                                      *)
(***************************************************************************)
Visible(r, table) == dims[table] \cup run[r].txDims[table]

VisibleParts(r) == parts \cup run[r].txParts

\* cursor.fetchone() of SELECT id FROM table WHERE column = key
SelectId(rows, key) ==
  IF \E row \in rows : row.key = key
  THEN (CHOOSE row \in rows : row.key = key).id
  ELSE NULL

\* the unique index on the natural key holds a row for the key: ON CONFLICT
\* DO NOTHING inserts nothing and RETURNING yields no row
Conflicts(r, table, key) ==
  \E row \in dims[table] \cup run[r].txDims[table] : row.key = key

\* (no unique index: an insert never waits for, nor sees, a concurrent one)
KeyLocked_never(r, table, key) == FALSE

\* another open transaction holds an uncommitted row for the key: the insert waits
KeyLocked(r, table, key) ==
  \E o \in Runs \ {r} :
     /\ run[o].tx = "open"
     /\ \E row \in run[o].txDims[table] : row.key = key

PartLocked(r, d) ==
  \E o \in Runs \ {r} : run[o].tx = "open" /\ d \in run[o].txParts

(***************************************************************************)
(* The five resolve_id calls of one record, in call order.                 *)
(***************************************************************************)
ResolveCalls ==
  << [table |-> "users", field |-> "email"],
     [table |-> "protocols", field |-> "dest_protocol"],
     [table |-> "endpoints", field |-> "dest_host"],
     [table |-> "tags", field |-> "inbound_tag"],
     [table |-> "tags", field |-> "outbound_tag"] >>

CurTable(rr) == ResolveCalls[rr.k].table

CurValue(rr) == get(rr.cur, ResolveCalls[rr.k].field)

\* the resolve_id call returned id: on to the next call, or to the row
Resolved(rr, id) ==
  [rr EXCEPT !.ids = Append(@, id),
             !.k = IF @ = Len(ResolveCalls) THEN 0 ELSE @ + 1,
             !.pc = IF rr.k = Len(ResolveCalls) THEN "append" ELSE "resolve"]

(***************************************************************************)
(* The rows handed to LOG_INSERT_SQL: [exc, row].                          *)
(***************************************************************************)
NoRow ==
  [timestamp |-> NoTime, source_ip |-> None, source_port |-> NULL,
   action |-> None, protocol_id |-> NULL, destination_id |-> NULL,
   destination_port |-> NULL, inbound_tag_id |-> NULL,
   outbound_tag_id |-> NULL, user_id |-> NULL]

\* int(v) if v else None
OptInt(v) == IF Truthy(v) THEN int(v) ELSE NULL

\* import_offline_buffer: batch.append((...))
ReplayRow(rec, log_time, ids) ==
  IF "source_ip" \notin DOMAIN rec \/ "source_port" \notin DOMAIN rec
  THEN [exc |-> "KeyError", row |-> NoRow]
  ELSE IF rec["source_port"] = None
  THEN [exc |-> "TypeError", row |-> NoRow]
  ELSE IF ~IsInt(rec["source_port"])
          \/ (Truthy(get(rec, "dest_port")) /\ ~IsInt(rec["dest_port"]))
  THEN [exc |-> "ValueError", row |-> NoRow]
  ELSE [exc |-> "none",
        row |-> [timestamp |-> log_time,
                 source_ip |-> rec["source_ip"],
                 source_port |-> int(rec["source_port"]),
                 action |-> getd(rec, "action", "accepted"),
                 protocol_id |-> ids[2],
                 destination_id |-> ids[3],
                 destination_port |-> OptInt(get(rec, "dest_port")),
                 inbound_tag_id |-> ids[4],
                 outbound_tag_id |-> ids[5],
                 user_id |-> ids[1]]]

\* process_log_file: log_batch.append((...))
FreshRow(data, log_time, ids) ==
  IF ~IsInt(data["source_port"])
     \/ (Truthy(get(data, "dest_port")) /\ ~IsInt(data["dest_port"]))
  THEN [exc |-> "ValueError", row |-> NoRow]
  ELSE [exc |-> "none",
        row |-> [timestamp |-> log_time,
                 source_ip |-> data["source_ip"],
                 source_port |-> int(data["source_port"]),
                 action |-> "accepted",
                 protocol_id |-> ids[2],
                 destination_id |-> ids[3],
                 destination_port |-> OptInt(get(data, "dest_port")),
                 inbound_tag_id |-> ids[4],
                 outbound_tag_id |-> ids[5],
                 user_id |-> ids[1]]]

\* (the truncations placed before the commit)
SuccessPath_truncate_first ==
  <<"trunc_source", "trunc_buffer", "commit", "close">>

\* the statements after the last flush, in program order: conn.commit(), the
\* truncation of the log file, the truncation of the buffer, the end of the
\* with block
SuccessPath == <<"commit", "trunc_source", "trunc_buffer", "close">>

After(pc) ==
  SuccessPath[(CHOOSE i \in 1..Len(SuccessPath) : SuccessPath[i] = pc) + 1]

\* an exception leaves the try block of process_log_file: the handler reads
\* conn and stats only, the locals of the loops are dead and dropped here
Raise(rr, exc) ==
  [rr EXCEPT !.pc = "rollback", !.err = exc,
             !.caches = [t \in Tables |-> {}], !.partition_cache = {},
             !.batch = << >>, !.log_batch = << >>, !.phase = "none",
             !.pos = 0, !.cur = NoData, !.log_time = NoTime, !.k = 0,
             !.ids = << >>]

(***************************************************************************)
(* process_log_file, DB mode.                                              *)
(***************************************************************************)
\* conn.cursor(); is_logs_partitioned(cur): the first statement opens the
\* transaction
IsLogsPartitioned(r) ==
  /\ run[r].pc = "is_partitioned"
  /\ run' = [run EXCEPT ![r].tx = "open", ![r].isPartitioned = partitioned,
                        ![r].pc = "import"]
  /\ UNCHANGED <<files, env, store, nruns>>

\* import_offline_buffer: return at once without a buffer, else start the loop
ImportOpen(r) ==
  /\ run[r].pc = "import"
  /\ run' = IF ~bufExists \/ Len(buffer) = 0
            THEN [run EXCEPT ![r].phase = "fresh", ![r].pos = 0, ![r].pc = "read"]
            ELSE [run EXCEPT ![r].phase = "replay", ![r].pos = 0,
                             ![r].batch = << >>, ![r].pc = "read"]
  /\ UNCHANGED <<files, env, store, nruns>>

\* one turn of "for line in f" of import_offline_buffer, up to the timestamp
ReplayRead(rr, bline) ==
  LET nx == [rr EXCEPT !.pos = @ + 1]
  IN IF bline.kind = "blank" THEN nx
     ELSE IF bline.kind # "json" THEN [nx EXCEPT !.stats.failed = @ + 1]
     ELSE LET rec == json_loads(bline)
          IN IF "timestamp" \notin DOMAIN rec
             THEN [nx EXCEPT !.stats.failed = @ + 1]
             ELSE IF rec["timestamp"] = None
             THEN Raise(nx, "TypeError")
             ELSE IF ~IsTime(rec["timestamp"])
             THEN [nx EXCEPT !.stats.failed = @ + 1]
             ELSE [nx EXCEPT !.cur = rec,
                             !.log_time = strptime(rec["timestamp"]),
                             !.pc = "ensure"]

\* one turn of "for line in f" of process_log_file, up to the timestamp
FreshRead(rr, line) ==
  LET nx == [rr EXCEPT !.pos = @ + 1]
      p == parse_line(line)
  IN IF p.exc # "none" THEN Raise(nx, p.exc)
     ELSE IF ~p.match THEN [nx EXCEPT !.stats.failed = @ + 1]
     ELSE IF p.data["timestamp"] = None THEN Raise(nx, "TypeError")
     ELSE IF ~IsTime(p.data["timestamp"])
     THEN [nx EXCEPT !.stats.failed = @ + 1]
     ELSE [nx EXCEPT !.cur = p.data,
                     !.log_time = strptime(p.data["timestamp"]),
                     !.pc = "ensure"]

(***************************************************************************)
(* The statements of the two loops that touch neither the store nor a      *)
(* file run with the statement before them.                                *)
(***************************************************************************)
\* (the set of ensured dates is not consulted)
NeedsPartition_nocache(rr) == rr.isPartitioned

\* (no partition is ever ensured)
NeedsPartition_never(rr) == FALSE

\* ensure_partition_for_datetime issues CREATE TABLE IF NOT EXISTS
NeedsPartition(rr) == rr.isPartitioned /\ rr.log_time.date \notin rr.partition_cache

\* (the cache is not consulted)
NeedsSelect_nocache(rr) == Truthy(CurValue(rr))

\* (a value is never taken for absent)
HasValue_always(rr) == TRUE

\* resolve_id: not (not value)
HasValue(rr) == Truthy(CurValue(rr))

\* resolve_id goes to the store: a value, and not in the cache
NeedsSelect(rr) ==
  /\ HasValue(rr)
  /\ SelectId(rr.caches[CurTable(rr)], CurValue(rr)) = NULL

\* (the threshold test lets the batch grow one row beyond BATCH_SIZE)
Full_above(rows) == Len(rows) > BATCH_SIZE

\* if len(batch) >= BATCH_SIZE
Full(rows) == Len(rows) >= BATCH_SIZE

\* batch.append(...) / log_batch.append(...), then the threshold test
AppendRow(rr) ==
  LET replay == rr.phase = "replay"
      b == IF replay THEN ReplayRow(rr.cur, rr.log_time, rr.ids)
           ELSE FreshRow(rr.cur, rr.log_time, rr.ids)
      grown == Append(IF replay THEN rr.batch ELSE rr.log_batch, b.row)
      nextpc == IF Full(grown) THEN "flush" ELSE "read"
  IN IF b.exc # "none" THEN Raise(rr, b.exc)
     ELSE IF replay THEN [rr EXCEPT !.batch = grown, !.pc = nextpc]
     ELSE [rr EXCEPT !.log_batch = grown, !.pc = nextpc]

\* from a record's timestamp on, up to the next statement for the store:
\* the partition already ensured, the values absent or cached, the row
RECURSIVE Advance(_)
AdvanceFrom(rr) ==
  IF rr.pc = "ensure" /\ ~NeedsPartition(rr)
  THEN Advance([rr EXCEPT !.pc = "resolve", !.k = 1, !.ids = << >>])
  ELSE IF rr.pc = "resolve" /\ ~HasValue(rr)
  THEN Advance(Resolved(rr, NULL))
  ELSE IF rr.pc = "resolve" /\ ~NeedsSelect(rr)
  THEN Advance(Resolved(rr, SelectId(rr.caches[CurTable(rr)], CurValue(rr))))
  ELSE IF rr.pc = "append"
  THEN AppendRow(rr)
  ELSE rr

\* (the locals are computed once, then the statements above run on them)
Advance(locals) == CHOOSE out \in {AdvanceFrom(rr) : rr \in {locals}} : TRUE

CurFile(r) == IF run[r].phase = "replay" THEN buffer ELSE source

ReadLine(r) ==
  /\ run[r].pc = "read"
  /\ run[r].pos < Len(CurFile(r))
  /\ run' = [run EXCEPT ![r] =
               Advance(IF run[r].phase = "replay"
                       THEN ReplayRead(run[r], buffer[run[r].pos + 1])
                       ELSE FreshRead(run[r], source[run[r].pos + 1]))]
  /\ UNCHANGED <<files, env, store, nruns>>

\* (the remainder of the replay batch is not flushed)
AfterReplay_noflush(rr) == [rr EXCEPT !.phase = "fresh", !.pos = 0, !.pc = "read"]

\* the loop of the file being iterated ended
AfterReplay(rr) ==
  IF rr.batch # << >>
  THEN [rr EXCEPT !.pc = "flush_final"]
  ELSE [rr EXCEPT !.phase = "fresh", !.pos = 0, !.pc = "read"]

AfterFresh(rr) ==
  IF rr.log_batch # << >>
  THEN [rr EXCEPT !.pc = "flush_final"]
  ELSE [rr EXCEPT !.pc = SuccessPath[1]]

EndOfFile(r) ==
  /\ run[r].pc = "read"
  /\ run[r].pos >= Len(CurFile(r))
  /\ run' = [run EXCEPT ![r] =
               IF run[r].phase = "replay" THEN AfterReplay(run[r])
               ELSE AfterFresh(run[r])]
  /\ UNCHANGED <<files, env, store, nruns>>

ensure_partition_for_datetime(r) ==
  /\ run[r].pc = "ensure"
  /\ LET d == run[r].log_time.date
     IN /\ ~PartLocked(r, d)
        /\ run' = [run EXCEPT ![r] = Advance([run[r] EXCEPT
                     !.txParts = IF d \in parts THEN @ ELSE @ \cup {d},
                     !.partition_cache = @ \cup {d},
                     !.pc = "resolve", !.k = 1, !.ids = << >>])]
  /\ UNCHANGED <<files, env, store, nruns>>

\* resolve_id: SELECT id FROM table WHERE column = value
ResolveLookup(r) ==
  /\ run[r].pc = "resolve"
  /\ LET t == CurTable(run[r])
         v == CurValue(run[r])
         found == SelectId(Visible(r, t), v)
     IN run' = [run EXCEPT ![r] =
          IF found # NULL
          THEN Advance(Resolved([run[r] EXCEPT
                                   !.caches[t] = @ \cup {[key |-> v, id |-> found]}],
                                found))
          ELSE [run[r] EXCEPT !.pc = "insert"]]
  /\ UNCHANGED <<files, env, store, nruns>>

\* INSERT ... ON CONFLICT DO NOTHING RETURNING id, the second SELECT when it
\* returned no row (result[0] of no row is a TypeError), then the cache and
\* the counter
ResolveInsert(r) ==
  /\ run[r].pc = "insert"
  /\ LET t == CurTable(run[r])
         v == CurValue(run[r])
         conflict == Conflicts(r, t, v)
         again == SelectId(Visible(r, t), v)
         new_id == IF conflict THEN again ELSE seqv[t] + 1
     IN /\ ~KeyLocked(r, t, v)
        /\ seqv' = [seqv EXCEPT ![t] = @ + 1]
        /\ run' = [run EXCEPT ![r] =
             IF new_id = NULL THEN Raise(run[r], "TypeError")
             ELSE Advance(Resolved([run[r] EXCEPT
                         !.txDims[t] = IF conflict THEN @
                                       ELSE @ \cup {[key |-> v, id |-> new_id]},
                         !.caches[t] = @ \cup {[key |-> v, id |-> new_id]},
                         !.stats[t] = @ + 1,
                         !.lost = @ \/ conflict],
                      new_id))]
  /\ UNCHANGED <<files, env, dims, parts, facts, nruns>>

\* the store takes a row only into an existing partition
Insertable(r, rows) ==
  partitioned =>
    \A i \in 1..Len(rows) : rows[i].timestamp.date \in VisibleParts(r)

\* (the batch goes in front of the rows already inserted)
Inserted_in_front(rr, rows) ==
  [rr EXCEPT !.txFacts = rows \o @, !.stats.processed = @ + Len(rows)]

\* (the rows of the statement are not counted)
Inserted_uncounted(rr, rows) == [rr EXCEPT !.txFacts = @ \o rows]

\* cur.executemany(LOG_INSERT_SQL, batch); stats["processed"] += len(batch)
Inserted(rr, rows) ==
  [rr EXCEPT !.txFacts = @ \o rows, !.stats.processed = @ + Len(rows)]

Flush(r) ==
  /\ run[r].pc \in {"flush", "flush_final"}
  /\ LET rr == run[r]
         replay == rr.phase = "replay"
         rows == IF replay THEN rr.batch ELSE rr.log_batch
         done == Inserted(rr, rows)
     IN run' = [run EXCEPT ![r] =
          IF ~Insertable(r, rows) THEN Raise(rr, "StoreError")
          ELSE IF rr.pc = "flush"
          THEN IF replay THEN [done EXCEPT !.batch = << >>, !.pc = "read"]
               ELSE [done EXCEPT !.log_batch = << >>, !.pc = "read"]
          ELSE IF replay
          THEN [done EXCEPT !.phase = "fresh", !.pos = 0, !.pc = "read"]
          ELSE [done EXCEPT !.pc = SuccessPath[1]]]
  /\ UNCHANGED <<files, env, store, nruns>>

\* conn.commit()
Commit(r) ==
  /\ run[r].pc = "commit"
  /\ dims' = [t \in Tables |-> dims[t] \cup run[r].txDims[t]]
  /\ parts' = parts \cup run[r].txParts
  /\ facts' = facts \o run[r].txFacts
  /\ run' = [run EXCEPT ![r].tx = "committed", ![r].pc = After("commit")]
  /\ UNCHANGED <<files, env, seqv, nruns>>

\* open(logfile, "w"); f.truncate(0)
TruncateSource(r) ==
  /\ run[r].pc = "trunc_source"
  /\ source' = << >>
  /\ srcExists' = TRUE
  /\ run' = [run EXCEPT ![r].pc = After("trunc_source")]
  /\ UNCHANGED <<buffer, bufExists, origin, env, store, nruns>>

\* if os.path.exists(offline_file): open(offline_file, "w"); f.truncate(0)
TruncateBuffer(r) ==
  /\ run[r].pc = "trunc_buffer"
  /\ buffer' = IF bufExists THEN << >> ELSE buffer
  /\ origin' = IF bufExists THEN << >> ELSE origin
  /\ run' = [run EXCEPT ![r].pc = After("trunc_buffer")]
  /\ UNCHANGED <<source, srcExists, bufExists, env, store, nruns>>

\* the statement about to run is sent to the store
AtStore(r) ==
  run[r].pc \in {"is_partitioned", "ensure", "resolve", "insert", "flush",
                 "flush_final", "commit"}

\* the store fails the statement (connection lost, constraint, ...); the
\* model injects one failure per behaviour, at any statement or file operation
StoreError(r) ==
  /\ AtStore(r)
  /\ ~faulted
  /\ faulted' = TRUE
  /\ run' = [run EXCEPT ![r] = Raise(run[r], "StoreError")]
  /\ UNCHANGED <<files, partitioned, nappend, written, store, nruns>>

\* opening or truncating a file after the commit fails
FileError(r) ==
  /\ run[r].pc \in {"trunc_source", "trunc_buffer"}
  /\ ~faulted
  /\ faulted' = TRUE
  /\ run' = [run EXCEPT ![r] = Raise(run[r], "OSError")]
  /\ UNCHANGED <<files, partitioned, nappend, written, store, nruns>>

\* (the handler ends the transaction with a commit)
Rollback_commits(r) ==
  /\ run[r].pc = "rollback"
  /\ dims' = [t \in Tables |-> dims[t] \cup run[r].txDims[t]]
  /\ parts' = parts \cup run[r].txParts
  /\ facts' = facts \o run[r].txFacts
  /\ run' = [run EXCEPT ![r].tx = "committed", ![r].pc = "close"]
  /\ UNCHANGED <<files, env, seqv, nruns>>

\* except (Exception, psycopg.Error): conn.rollback()
Rollback(r) ==
  /\ run[r].pc = "rollback"
  /\ run' = [run EXCEPT
       ![r].tx = IF @ = "open" THEN "rolledback" ELSE @,
       ![r].txDims = IF run[r].tx = "open" THEN [t \in Tables |-> {}] ELSE @,
       ![r].txParts = IF run[r].tx = "open" THEN {} ELSE @,
       ![r].txFacts = IF run[r].tx = "open" THEN << >> ELSE @,
       ![r].pc = "close"]
  /\ UNCHANGED <<files, env, store, nruns>>

\* (the finally clause does not close the connection)
Close_skipped(r) ==
  /\ run[r].pc = "close"
  /\ run' = [run EXCEPT ![r].pc = "stats"]
  /\ UNCHANGED <<files, env, store, nruns>>

\* finally: conn.close()
Close(r) ==
  /\ run[r].pc = "close"
  /\ run' = [run EXCEPT ![r].conn = "closed", ![r].pc = "stats"]
  /\ UNCHANGED <<files, env, store, nruns>>

\* export_stats(stats, duration, rate, ...), on both paths
export_stats(r) ==
  /\ run[r].pc = "stats"
  /\ run' = [run EXCEPT ![r].exported = TRUE, ![r].report = run[r].stats,
                        ![r].pc = "done"]
  /\ UNCHANGED <<files, env, store, nruns>>

\* the process ends; its locals are gone
Exit(r) ==
  /\ run[r].pc \in {"done", "crashed"}
  /\ run' = [run EXCEPT ![r] = InitRun]
  /\ UNCHANGED <<files, env, store, nruns>>

\* main: process_log_file returned and main falls off its end (status 0), or
\* an exception left it and the interpreter ends with its traceback (status 1)
ExitStatus(rr) == IF rr.pc = "crashed" THEN 1 ELSE 0

(***************************************************************************)
(* Specifications.  Spec: the scheduler starts one invocation at a time.   *)
(***************************************************************************)
Step(r) ==
  \/ Connect(r)
  \/ OfflineOpen(r)
  \/ OfflineLine(r)
  \/ OfflineEnd(r)
  \/ OfflineTruncate(r)
  \/ IsLogsPartitioned(r)
  \/ ImportOpen(r)
  \/ ReadLine(r)
  \/ EndOfFile(r)
  \/ ensure_partition_for_datetime(r)
  \/ ResolveLookup(r)
  \/ ResolveInsert(r)
  \/ Flush(r)
  \/ Commit(r)
  \/ TruncateSource(r)
  \/ TruncateBuffer(r)
  \/ StoreError(r)
  \/ FileError(r)
  \/ Rollback(r)
  \/ Close(r)
  \/ export_stats(r)
  \/ Exit(r)

Next ==
  \/ \E line \in ProxyLines : ProxyAppend(line)
  \/ StartAlone
  \/ Step(1)

Spec == Init /\ [][Next]_vars

\* SpecFair: one invocation at a time over lines of three kinds (a record,
\* no match, an error that is not the store's), and an invocation that can
\* take a step takes one (the process is scheduled and no call of it blocks
\* for ever)
FairLines == {LineBare, LineJunk, LineSelfPort}

NextFair ==
  \/ \E line \in FairLines : ProxyAppend(line)
  \/ StartAlone
  \/ Step(1)

SpecFair == Init /\ [][NextFair]_vars /\ WF_vars(Step(1))

(***************************************************************************)
(* SpecConc: the scheduler starts an invocation while another is running   *)
(* (cron with nothing that excludes overlapping jobs).                     *)
(***************************************************************************)
ConcLines == {LineBare}

StartAny == \E r \in Runs : Start(r)

NextConc ==
  \/ \E line \in ConcLines : ProxyAppend(line)
  \/ StartAny
  \/ \E r \in Runs : Step(r)

SpecConc == Init /\ [][NextConc]_vars

(***************************************************************************)
(* SpecLive: the proxy keeps the log file open and appends to it whether   *)
(* or not an invocation is running.                                        *)
(***************************************************************************)
\* the lines the proxy writes in SpecLive: a record, no match, and the two
\* kinds of line that hold the self-call marker
LiveLines == {LineBare, LineJunk, LineSelf, LineSelfRoute}

ProxyAppendLive(line) ==
  /\ nappend < MaxAppend
  /\ source' = Append(source, line)
  /\ srcExists' = TRUE
  /\ nappend' = nappend + 1
  /\ written' = IF LineValid(line) THEN Append(written, line) ELSE written
  /\ UNCHANGED <<buffer, bufExists, origin, partitioned, faulted, store, run,
                 nruns>>

NextLive ==
  \/ \E line \in LiveLines : ProxyAppendLive(line)
  \/ StartAlone
  \/ Step(1)

SpecLive == Init /\ [][NextLive]_vars

(***************************************************************************)
(* Properties.                                                             *)
(***************************************************************************)
Active(r) == run[r].pc # "idle"

\* the invocation is past its try block
Ended(r) == run[r].pc \in {"close", "stats", "done"}

FilesAsBefore(r) ==
  /\ source = run[r].pre.source
  /\ srcExists = run[r].pre.srcExists
  /\ buffer = run[r].pre.buffer
  /\ bufExists = run[r].pre.bufExists

\* C1: a DB-mode run in which a store statement or the commit failed ends
\* with no row of that run in logs and with the source file and the buffer as
\* they were at its start
C1_Atomicity ==
  \A r \in Runs :
    (run[r].mode = "db" /\ Ended(r) /\ run[r].err = "StoreError") =>
      /\ facts = run[r].pre.facts
      /\ run[r].txFacts = << >>
      /\ FilesAsBefore(r)

\* a run that had inserted a batch from the buffer and the source file before
\* the store failed
C1_Witness ==
  \E r \in Runs :
    /\ run[r].pc = "done"
    /\ run[r].err = "StoreError"
    /\ run[r].stats.processed > 0
    /\ run[r].pre.buffer # << >>
    /\ run[r].pre.source # << >>

\* C2: in a DB-mode run a step that empties the source file or the buffer is
\* taken only once the run's transaction has committed
C2_CommitThenTruncate ==
  [][\A r \in Runs :
       ( /\ run[r].mode = "db"
         /\ run'[r].pc # run[r].pc
         /\ \/ (source' = << >> /\ source # << >>)
            \/ (buffer' = << >> /\ buffer # << >>) )
       => run[r].tx = "committed"]_vars

\* a DB-mode run that committed and has emptied both files
C2_Witness ==
  \E r \in Runs :
    /\ run[r].pc = "done"
    /\ run[r].tx = "committed"
    /\ run[r].pre.source # << >> /\ source = << >>
    /\ run[r].pre.buffer # << >> /\ buffer = << >>

(***************************************************************************)
(* A row of logs read back through its dimension rows (the LogEvent it     *)
(* stands for), and the LogEvent a source line or a buffer line holds.     *)
(***************************************************************************)
KeyOf(rows, id) ==
  IF id = NULL THEN None
  ELSE IF \E row \in rows : row.id = id
  THEN (CHOOSE row \in rows : row.id = id).key
  ELSE "dangling"

EventOfRow(d, row) ==
  [timestamp |-> row.timestamp,
   source_ip |-> row.source_ip,
   source_port |-> row.source_port,
   action |-> row.action,
   protocol |-> KeyOf(d["protocols"], row.protocol_id),
   host |-> KeyOf(d["endpoints"], row.destination_id),
   destination_port |-> row.destination_port,
   inbound_tag |-> KeyOf(d["tags"], row.inbound_tag_id),
   outbound_tag |-> KeyOf(d["tags"], row.outbound_tag_id),
   user |-> KeyOf(d["users"], row.user_id)]

EventsOfRows(d, rows) == [i \in 1..Len(rows) |-> EventOfRow(d, rows[i])]

Absent(v) == IF Truthy(v) THEN v ELSE None

Loadable(rec) ==
  /\ {"timestamp", "source_ip", "source_port"} \subseteq DOMAIN rec
  /\ IsTime(rec["timestamp"])
  /\ IsInt(rec["source_port"])
  /\ Truthy(get(rec, "dest_port")) => IsInt(rec["dest_port"])

EventOf(rec) ==
  [timestamp |-> strptime(rec["timestamp"]),
   source_ip |-> rec["source_ip"],
   source_port |-> int(rec["source_port"]),
   action |-> getd(rec, "action", "accepted"),
   protocol |-> Absent(get(rec, "dest_protocol")),
   host |-> Absent(get(rec, "dest_host")),
   destination_port |-> OptInt(get(rec, "dest_port")),
   inbound_tag |-> Absent(get(rec, "inbound_tag")),
   outbound_tag |-> Absent(get(rec, "outbound_tag")),
   user |-> Absent(get(rec, "email"))]

LoadableLines ==
  {line \in Lines : LineParses(line) /\ Loadable(Parsed[line].data)}

LineLoadable(line) == line \in LoadableLines

LineEventOf == [line \in LoadableLines |-> EventOf(Parsed[line].data)]

LineEvent(line) == LineEventOf[line]

\* the LogEvents of the loadable lines, in line order
LineEvents(lines) ==
  LET v == SelectSeq(lines, LineLoadable)
  IN [i \in 1..Len(v) |-> LineEvent(v[i])]

\* json.loads of every line write_offline can produce, computed once
BufferLines ==
  {json_dump(OfflineRecord(Parsed[line].data)) : line \in {l \in Lines : LineParses(l)}}

LoadsOf == [b \in BufferLines |-> json_loads(b)]

Loads(bline) == IF bline \in BufferLines THEN LoadsOf[bline] ELSE json_loads(bline)

BufLoadable(bline) == bline.kind = "json" /\ Loadable(Loads(bline))

BufEvents(blines) ==
  LET v == SelectSeq(blines, BufLoadable)
  IN [i \in 1..Len(v) |-> EventOf(Loads(v[i]))]

\* the buffer line holds the record of the source line
HoldsLine(bline, line) ==
  /\ bline.kind = "json"
  /\ LET rec == Loads(bline)
         data == Parsed[line].data
     IN \A f \in FieldNames : f \in DOMAIN rec /\ rec[f] = data[f]

Count(seq, Test(_)) == Cardinality({i \in 1..Len(seq) : Test(seq[i])})

\* C3: (the two-run scenario as specified) with the store down in a first
\* run and up in the next, and no other writer, the first run ends with a
\* non-empty buffer and an empty source file, and the second with both files
\* empty and every record of the original source in logs exactly once
C3_TwoRuns ==
  \A r \in Runs :
    run[r].pc = "done" =>
      /\ ( /\ run[r].mode = "offline"
           /\ \E i \in 1..Len(run[r].pre.source) : LineParses(run[r].pre.source[i]) )
         => (buffer # << >> /\ source = << >>)
      /\ ( /\ ~faulted
           /\ run[r].up
           /\ run[r].pre.origin # << >>
           /\ run[r].pre.srcExists /\ run[r].pre.source = << >> )
         => /\ buffer = << >>
            /\ source = << >>
            /\ EventsOfRows(dims, facts) =
                 EventsOfRows(dims, run[r].pre.facts) \o LineEvents(run[r].pre.origin)

\* C4: every line with a record that the proxy wrote is, as often as it was
\* written, in logs, in the buffer or still in the source file, in every state
\* of every sequence of runs with outages and a store failure
C4_NoRecordLost ==
  LET loaded == EventsOfRows(dims, facts)
  IN \A w \in 1..Len(written) :
       LET line == written[w]
           same(l) == l = line
           held(b) == HoldsLine(b, line)
           stored(e) == LineLoadable(line) /\ e = LineEvent(line)
       IN Count(written, same) <=
            Count(source, same) + Count(buffer, held) + Count(loaded, stored)

\* lines that met a failed run and are now, after the next run, in logs only
C4_Witness ==
  /\ faulted
  /\ AllIdle
  /\ source = << >> /\ buffer = << >>
  /\ written # << >>
  /\ Len(facts) = Len(written)

(***************************************************************************)
(* The online path of process_log_file as a function of the store and of   *)
(* the lines: what one DB-mode run that reads the lines from the source    *)
(* file leaves in the store.  s = [ok, dims, seqv, parts, facts, ids].     *)
(***************************************************************************)
\* resolve_id with nobody else at the store
ResolveOne(s, call, data) ==
  LET t == call.table
      v == get(data, call.field)
      found == SelectId(s.dims[t], v)
      new_id == s.seqv[t] + 1
  IN IF ~Truthy(v) THEN [s EXCEPT !.ids = Append(@, NULL)]
     ELSE IF found # NULL THEN [s EXCEPT !.ids = Append(@, found)]
     ELSE [s EXCEPT !.dims[t] = @ \cup {[key |-> v, id |-> new_id]},
                    !.seqv[t] = new_id,
                    !.ids = Append(@, new_id)]

RECURSIVE ResolveFrom(_, _, _)
ResolveFrom(s, k, data) ==
  IF k > Len(ResolveCalls) THEN s
  ELSE ResolveFrom(ResolveOne(s, ResolveCalls[k], data), k + 1, data)

\* one turn of the loop over the log file
LoadLine(s, line) ==
  LET p == parse_line(line)
      failed == [s EXCEPT !.ok = FALSE]
  IN IF ~s.ok THEN s
     ELSE IF p.exc # "none" THEN failed
     ELSE IF ~p.match THEN s
     ELSE IF p.data["timestamp"] = None THEN failed
     ELSE IF ~IsTime(p.data["timestamp"]) THEN s
     ELSE LET log_time == strptime(p.data["timestamp"])
              ensured == [s EXCEPT !.parts = IF partitioned
                                             THEN @ \cup {log_time.date}
                                             ELSE @,
                                   !.ids = << >>]
              resolved == ResolveFrom(ensured, 1, p.data)
              b == FreshRow(p.data, log_time, resolved.ids)
          IN IF b.exc # "none" THEN [resolved EXCEPT !.ok = FALSE]
             ELSE [resolved EXCEPT !.facts = Append(@, b.row)]

RECURSIVE LoadLines(_, _)
LoadLines(s, lines) ==
  IF lines = << >> THEN s
  ELSE LoadLines(LoadLine(s, Head(lines)), Tail(lines))

\* the store after the run: everything on commit, only the sequences (which
\* no rollback restores) on failure
DirectLoad(before, lines) ==
  LET s == LoadLines([ok |-> TRUE, dims |-> before.dims, seqv |-> before.seqv,
                      parts |-> before.parts, facts |-> before.facts,
                      ids |-> << >>], lines)
  IN IF s.ok
     THEN [ok |-> TRUE, dims |-> s.dims, seqv |-> s.seqv, parts |-> s.parts,
           facts |-> s.facts]
     ELSE [ok |-> FALSE, dims |-> before.dims, seqv |-> s.seqv,
           parts |-> before.parts, facts |-> before.facts]

StoreNow ==
  [dims |-> dims, seqv |-> seqv, parts |-> parts, facts |-> facts]

\* C5: a DB-mode run that met no store failure leaves the store as one online
\* run would that read, from the same store state, the lines whose records
\* an earlier offline run put in the buffer followed by the lines of the
\* source file: the same dimension rows and ids, the same logs rows in the
\* same order (and fails when that run would fail)
C5_RoundTrip ==
  \A r \in Runs :
    (run[r].mode = "db" /\ Ended(r) /\ run[r].err # "StoreError") =>
      LET d == DirectLoad(run[r].pre, run[r].pre.origin \o run[r].pre.source)
      IN /\ d.ok <=> run[r].tx = "committed"
         /\ StoreNow = [dims |-> d.dims, seqv |-> d.seqv, parts |-> d.parts,
                        facts |-> d.facts]

\* a run replayed a buffer written during an outage and committed its records
C5_Witness ==
  \E r \in Runs :
    /\ run[r].pc = "done" /\ run[r].tx = "committed"
    /\ run[r].pre.origin # << >>
    /\ \E i \in 1..Len(run[r].pre.origin) : LineLoadable(run[r].pre.origin[i])
    /\ Len(facts) > Len(run[r].pre.facts)
    /\ run[r].pre.buffer # << >> /\ buffer = << >>

StoreAsBefore(r) ==
  StoreNow = [dims |-> run[r].pre.dims, seqv |-> run[r].pre.seqv,
              parts |-> run[r].pre.parts, facts |-> run[r].pre.facts]

\* C6: a run that finds the source file missing or empty at START is over at
\* once: no connection, no transaction, nothing read, the two files and the
\* store as they were, no statistics counted or exported
C6_StartNoop ==
  \A r \in Runs :
    (Active(r) /\ (~run[r].pre.srcExists \/ run[r].pre.source = << >>)) =>
      /\ run[r].pc = "done"
      /\ run[r].mode = "none" /\ run[r].conn = "none" /\ run[r].tx = "none"
      /\ run[r].phase = "none" /\ run[r].pos = 0
      /\ run[r].stats = ZeroStats /\ ~run[r].exported
      /\ FilesAsBefore(r)
      /\ StoreAsBefore(r)

\* an empty source file, a buffer with records and a reachable store: the
\* run ended at START
C6_Witness ==
  \E r \in Runs :
    /\ run[r].pc = "done"
    /\ run[r].up
    /\ run[r].pre.srcExists /\ run[r].pre.source = << >>
    /\ run[r].pre.buffer # << >>

OfflinePcs == {"off_open", "off_line", "off_trunc", "stats", "done", "crashed"}

\* C7: the mode is "offline" exactly when the store could not be reached, and
\* an offline run has no connection and no transaction, resolved nothing,
\* ensured no partition, inserted nothing, is never at a step of the DB path,
\* and leaves the store as it was
C7_OfflineShortCircuit ==
  \A r \in Runs :
    run[r].mode # "none" =>
      /\ run[r].mode = "offline" <=> ~run[r].up
      /\ run[r].mode = "offline" =>
           /\ run[r].conn = "none" /\ run[r].tx = "none"
           /\ run[r].caches = [t \in Tables |-> {}]
           /\ run[r].txDims = [t \in Tables |-> {}]
           /\ run[r].partition_cache = {} /\ run[r].txParts = {}
           /\ run[r].batch = << >> /\ run[r].log_batch = << >>
           /\ run[r].txFacts = << >>
           /\ run[r].pc \in OfflinePcs
           /\ StoreAsBefore(r)

\* an offline run that wrote a record ended, over a store that holds rows
C7_Witness ==
  \E r \in Runs :
    /\ run[r].mode = "offline" /\ run[r].pc = "done"
    /\ run[r].stats.processed > 0
    /\ facts # << >>

IsPrefix(p, q) == Len(p) <= Len(q) /\ SubSeq(q, 1, Len(p)) = p

\* C8: in an offline run the buffer is its content at START followed by one
\* record for each parsed line among the lines read so far, in line order;
\* the source file is as at START until it is truncated, and it is truncated
\* only when every line was read
C8_OfflineHandoff ==
  \A r \in Runs :
    (run[r].mode = "offline" /\ run[r].pc # "off_open") =>
      LET before == run[r].pre.buffer
          parsed == SelectSeq(SubSeq(run[r].pre.source, 1, run[r].pos), LineParses)
      IN /\ IsPrefix(before, buffer)
         /\ Len(buffer) = Len(before) + Len(parsed)
         /\ \A i \in 1..Len(parsed) :
              /\ HoldsLine(buffer[Len(before) + i], parsed[i])
              /\ Loads(buffer[Len(before) + i])["action"] = "accepted"
         /\ source # run[r].pre.source =>
              /\ source = << >>
              /\ run[r].pos = Len(run[r].pre.source)
              /\ run[r].pc \in {"stats", "done"}

\* an offline run over a buffer that held a record appended one more and
\* truncated the source file
C8_Witness ==
  \E r \in Runs :
    /\ run[r].mode = "offline" /\ run[r].pc = "done"
    /\ run[r].pre.buffer # << >>
    /\ run[r].pre.source # << >>
    /\ Len(buffer) = Len(run[r].pre.buffer) + 1
    /\ source = << >>

\* C9: the rows a DB-mode run has handed to the insert statement are, read
\* back through the dimension tables, a prefix of the valid records of the
\* buffer in buffer order followed by the valid records of the source file in
\* line order, and all of them once the run committed; while the buffer is
\* replayed no source record is batched or inserted, and the loop over the
\* source file starts only when every buffered record was inserted
C9_ReplayThenFresh ==
  \A r \in Runs :
    (run[r].mode = "db" /\ run[r].tx \in {"open", "committed"}) =>
      LET replayed == BufEvents(run[r].pre.buffer)
          fresh == LineEvents(run[r].pre.source)
          view == [t \in Tables |-> Visible(r, t)]
          handed == EventsOfRows(view, run[r].txFacts)
      IN /\ IsPrefix(handed, replayed \o fresh)
         /\ run[r].tx = "committed" => handed = replayed \o fresh
         /\ run[r].phase = "replay" =>
              /\ run[r].log_batch = << >>
              /\ Len(handed) <= Len(replayed)
         /\ run[r].phase = "fresh" => IsPrefix(replayed, handed)

\* a run committed a record of the buffer and then a record of the source file
C9_Witness ==
  \E r \in Runs :
    /\ run[r].mode = "db" /\ run[r].tx = "committed"
    /\ BufEvents(run[r].pre.buffer) # << >>
    /\ LineEvents(run[r].pre.source) # << >>
    /\ Len(run[r].txFacts) =
         Len(BufEvents(run[r].pre.buffer)) + Len(LineEvents(run[r].pre.source))

\* C10: with two runs resolving at the same time, a dimension table holds at
\* most one row per natural key and one per id, every id a run cached is the
\* id of the row both runs see for that key (so two runs that resolved the
\* same key hold the same id), and no run failed in resolve_id for having
\* lost the insert
C10_InsertOrGet ==
  /\ \A t \in Tables : \A a, b \in dims[t] :
       (a.key = b.key \/ a.id = b.id) => a = b
  /\ \A r \in Runs : \A t \in Tables : \A c \in run[r].caches[t] :
       run[r].tx \in {"open", "committed"} => c \in Visible(r, t)
  /\ \A r, o \in Runs : \A t \in Tables :
       (run[r].tx = "committed" /\ run[o].tx = "committed") =>
         \A c \in run[r].caches[t] : \A e \in run[o].caches[t] :
           c.key = e.key => c.id = e.id
  /\ \A r \in Runs : run[r].err # "TypeError"

\* both runs found the key absent, one inserted the row, the other's insert
\* was a no-op and it read the winner's id back; both committed
C10_Witness ==
  \E r, o \in Runs :
    /\ r # o
    /\ run[r].lost /\ run[r].tx = "committed"
    /\ ~run[o].lost /\ run[o].tx = "committed"
    /\ \E c \in run[r].caches["protocols"] :
         /\ c \in run[o].caches["protocols"]
         /\ c \in dims["protocols"]
         /\ c \notin run[r].pre.dims["protocols"]
         /\ c \notin run[o].pre.dims["protocols"]

\* C11: (as specified) in a run whose transaction is open or committed, the
\* counter of each dimension table is the number of rows of that table this
\* run's own inserts created: no count for a cache hit, for a row the first
\* SELECT found, or for an insert that was a no-op
C11_CountsOwnRows ==
  \A r \in Runs : \A t \in Tables :
    run[r].tx \in {"open", "committed"} =>
      run[r].stats[t] = Cardinality(run[r].txDims[t])

UniqueRows(rows) ==
  \A a, b \in rows : (a.key = b.key \/ a.id = b.id) => a = b

\* C12: a dimension table maps a key to one id and never loses or changes a
\* committed row; what a run cached is the row of the table, and the run
\* asks the store only for a key it has not cached: so a key resolves to the
\* same id twice in a run (the second time from the cache) and in any later
\* run
C12_ReferentialStability ==
  /\ [](\A r \in Runs : \A t \in Tables :
          /\ UniqueRows(Visible(r, t))
          /\ UniqueRows(run[r].caches[t])
          /\ run[r].tx \in {"open", "committed"} =>
               run[r].caches[t] \subseteq Visible(r, t)
          /\ (run[r].pc \in {"resolve", "insert"} /\ CurTable(run[r]) = t) =>
               \A c \in run[r].caches[t] : c.key # CurValue(run[r]))
  /\ [][\A t \in Tables : dims[t] \subseteq dims'[t]]_vars

\* a run took from the table a row that an earlier run created, and its logs
\* row carries the id the earlier run's row carries
C12_Witness ==
  \E r \in Runs :
    /\ run[r].pc = "done" /\ run[r].tx = "committed"
    /\ run[r].pre.facts # << >>
    /\ Len(facts) > Len(run[r].pre.facts)
    /\ \E c \in run[r].caches["protocols"] :
         /\ c \in run[r].pre.dims["protocols"]
         /\ facts[1].protocol_id = c.id
         /\ facts[Len(facts)].protocol_id = c.id

\* the natural keys of a LogEvent in the order of the id columns below
EventKeys(e) == <<e.user, e.protocol, e.host, e.inbound_tag, e.outbound_tag>>

RowIds(row) ==
  <<row.user_id, row.protocol_id, row.destination_id, row.inbound_tag_id,
    row.outbound_tag_id>>

\* C13: an absent value never reaches the store nor the cache nor a counter:
\* no row and no cache entry has an absent key, no statement of resolve_id
\* is issued for one, the counters count the rows created only, and the logs
\* row of a record has NULL exactly in the columns of its absent dimensions
C13_AbsentKey ==
  \A r \in Runs :
    /\ \A t \in Tables :
         /\ \A row \in Visible(r, t) \cup run[r].caches[t] : Truthy(row.key)
         /\ run[r].tx \in {"open", "committed"} =>
              run[r].stats[t] = Cardinality(run[r].txDims[t])
    /\ run[r].pc \in {"resolve", "insert"} => Truthy(CurValue(run[r]))
    /\ (run[r].mode = "db" /\ run[r].tx = "committed") =>
         LET events == BufEvents(run[r].pre.buffer) \o LineEvents(run[r].pre.source)
         IN /\ Len(run[r].txFacts) = Len(events)
            /\ \A i \in 1..Len(events) : \A k \in 1..Len(ResolveCalls) :
                 EventKeys(events[i])[k] = None <=> RowIds(run[r].txFacts[i])[k] = NULL

\* a record without user and without tags was committed: NULL in these
\* columns, no row in users or tags, nothing counted for them
C13_Witness ==
  \E r \in Runs :
    /\ run[r].pc = "done" /\ run[r].tx = "committed"
    /\ run[r].pre.source = <<LineBare>>
    /\ run[r].pre.dims = [t \in Tables |-> {}]
    /\ Len(run[r].txFacts) = 1
    /\ run[r].txFacts[1].user_id = NULL
    /\ run[r].txFacts[1].inbound_tag_id = NULL
    /\ run[r].txFacts[1].protocol_id # NULL
    /\ dims["users"] = {} /\ dims["tags"] = {}
    /\ run[r].stats["users"] = 0 /\ run[r].stats["tags"] = 0

\* C14: a run sends CREATE TABLE IF NOT EXISTS only for a date it has not
\* ensured yet and remembers the date from then on, so at most once per
\* date; the statement adds exactly that date to the partitions the run
\* sees, changes nothing when the partition exists already, and fails for
\* no duplicate
C14_EnsureOnce ==
  [][\A r \in Runs :
       LET d == run[r].log_time.date
           issued == /\ run[r].pc = "ensure" /\ run'[r].pc # "ensure"
                     /\ faulted' = faulted
       IN /\ run'[r].pc = "ensure" =>
               /\ run'[r].isPartitioned
               /\ run'[r].log_time.date \notin run'[r].partition_cache
          /\ issued =>
               /\ d \notin run[r].partition_cache
               /\ parts' \cup run'[r].txParts = VisibleParts(r) \cup {d}
               /\ d \in VisibleParts(r) => run'[r].txParts = run[r].txParts
               /\ run'[r].err # "StoreError"
               /\ run'[r].err = "none" => d \in run'[r].partition_cache
          /\ (run'[r].err = "none" /\ run'[r].pc # "idle") =>
               run[r].partition_cache \subseteq run'[r].partition_cache
    ]_vars

\* two records of one day were committed by a run that ensured the day once
C14_Witness ==
  \E r \in Runs :
    /\ run[r].pc = "done" /\ run[r].tx = "committed"
    /\ run[r].isPartitioned
    /\ Len(run[r].txFacts) = 2
    /\ run[r].txFacts[1].timestamp.date = run[r].txFacts[2].timestamp.date
    /\ run[r].partition_cache = {run[r].txFacts[1].timestamp.date}
    /\ run[r].txParts = run[r].partition_cache

\* C15: in a partitioned store, every row a run has batched, is about to
\* insert or has inserted, from the buffer or from the source file, has the
\* partition of its day among the partitions the run's transaction sees
C15_PartitionBeforeInsert ==
  \A r \in Runs :
    (partitioned /\ run[r].tx = "open") =>
      LET rows == run[r].batch \o run[r].log_batch \o run[r].txFacts
      IN \A i \in 1..Len(rows) : rows[i].timestamp.date \in VisibleParts(r)

\* a replayed row and a fresh row wait for their insert, with their
\* partitions created by this transaction
C15_Witness ==
  \E r \in Runs :
    /\ partitioned
    /\ run[r].pc = "flush_final" /\ run[r].phase = "fresh"
    /\ run[r].log_batch # << >>
    /\ run[r].txFacts # << >>
    /\ run[r].pre.buffer # << >>
    /\ run[r].txParts # {}
    /\ parts = {}

\* C16: (as specified) a DB-mode run in which a store statement or the
\* commit failed has rolled back when it ends, and its process ends with a
\* status other than 0, the status of a run that committed
C16_FailureExitsNonZero ==
  \A r \in Runs :
    (run[r].pc = "done" /\ run[r].mode = "db" /\ run[r].err = "StoreError") =>
      /\ run[r].tx = "rolledback"
      /\ ExitStatus(run[r]) # 0

\* C17: (as specified) after a run that a store error rolled back, a run
\* that reaches the store and meets no store failure commits every valid
\* record of the buffer and of the source file as it found them, and leaves
\* both files empty
C17_RetryCommits ==
  \A r \in Runs :
    ( /\ faulted
      /\ run[r].pc = "done" /\ run[r].mode = "db"
      /\ run[r].err \notin {"StoreError", "OSError"}
      /\ LineEvents(run[r].pre.source) # << >> ) =>
      /\ run[r].tx = "committed"
      /\ source = << >> /\ buffer = << >>
      /\ EventsOfRows(dims, facts) =
           EventsOfRows(dims, run[r].pre.facts)
             \o BufEvents(run[r].pre.buffer) \o LineEvents(run[r].pre.source)


\* the line matches neither LINE_RE nor the self-call marker
NoShape(line) == Parsed[line].exc = "none" /\ ~Parsed[line].match

\* the line gives a record whose timestamp strptime refuses
BadTimestamp(line) == LineParses(line) /\ ~LineValid(line)

\* invocation r takes one line of the source file in this step
TakesSourceLine(r) ==
  /\ \/ run[r].pc = "off_line"
     \/ run[r].pc = "read" /\ run[r].phase = "fresh"
  /\ run[r].pos < Len(source)
  /\ run'[r] # run[r]

\* the line taken in this step is counted as failed, gives neither a row nor
\* a buffer record, and the loop goes on with the next line
SkippedAsFailed(r) ==
  /\ run'[r].stats = [run[r].stats EXCEPT !.failed = @ + 1]
  /\ run'[r].pc = run[r].pc
  /\ run'[r].pos = run[r].pos + 1
  /\ run'[r].log_batch = run[r].log_batch
  /\ run'[r].txFacts = run[r].txFacts
  /\ run'[r].err = run[r].err
  /\ buffer' = buffer

\* C18: (as specified) a source line that matches no shape, or whose
\* timestamp cannot be parsed, adds one to the failure counter of the run that
\* reads it, gives no row and no record, and the run goes on with the next
\* line, in DB mode and in offline mode
C18_ParseFailureLocal ==
  [][\A r \in Runs :
       LET line == source[run[r].pos + 1]
       IN (TakesSourceLine(r) /\ (NoShape(line) \/ BadTimestamp(line))) =>
            SkippedAsFailed(r)]_vars

\* the part of C18 the code keeps: lines of no shape in both modes, and
\* unparsable timestamps in DB mode
C18_InDbMode ==
  [][\A r \in Runs :
       LET line == source[run[r].pos + 1]
       IN ( /\ TakesSourceLine(r)
            /\ \/ NoShape(line)
               \/ BadTimestamp(line) /\ run[r].mode = "db" ) =>
            SkippedAsFailed(r)]_vars


\* invocation r takes one record of the buffer in this step
TakesBufferLine(r) ==
  /\ run[r].pc = "read" /\ run[r].phase = "replay"
  /\ run[r].pos < Len(buffer)
  /\ run'[r] # run[r]

\* a buffered line that holds text and gives no row
Malformed(bline) == bline.kind # "blank" /\ ~BufLoadable(bline)

\* the errors import_offline_buffer catches: no JSON, no timestamp key, a
\* timestamp strptime refuses
CaughtAtReplay(bline) ==
  \/ bline.kind \notin {"blank", "json"}
  \/ /\ bline.kind = "json"
     /\ \/ "timestamp" \notin DOMAIN Loads(bline)
        \/ /\ Loads(bline)["timestamp"] # None
           /\ ~IsTime(Loads(bline)["timestamp"])

\* the record taken in this step is counted as failed, gives no row, and the
\* replay goes on with the next record
RecordSkipped(r) ==
  /\ run'[r].stats = [run[r].stats EXCEPT !.failed = @ + 1]
  /\ run'[r].pc = "read" /\ run'[r].phase = "replay"
  /\ run'[r].pos = run[r].pos + 1
  /\ run'[r].batch = run[r].batch
  /\ run'[r].txFacts = run[r].txFacts
  /\ run'[r].err = run[r].err

\* C19: (as specified) a malformed record met during replay adds one to the
\* failure counter, is skipped, and the replay goes on with the next record;
\* the run is not aborted
C19_CorruptionLocal ==
  [][\A r \in Runs :
       (TakesBufferLine(r) /\ Malformed(buffer[run[r].pos + 1])) =>
         RecordSkipped(r)]_vars

\* the part of C19 the code keeps: the records whose error is caught
C19_CaughtOnly ==
  [][\A r \in Runs :
       (TakesBufferLine(r) /\ CaughtAtReplay(buffer[run[r].pos + 1])) =>
         RecordSkipped(r)]_vars


\* C20: (as specified) parse_line returns a record or no match for every
\* line and raises nothing to its caller: no invocation, in DB mode or in
\* offline mode, ends a loop over the source file with the IndexError of
\* parse_line
C20_ParseLineTotal ==
  \A r \in Runs : run[r].err # "IndexError"

\* C21: (as specified) a DB-mode run is on the rollback path only after a
\* statement sent to the store failed; nothing a source line or a buffered
\* record holds puts it there
C21_OnlyStoreAborts ==
  \A r \in Runs :
    (run[r].mode = "db" /\ run[r].pc = "rollback") => run[r].err = "StoreError"

\* the step empties a source file that held lines
SourceTruncated == source # << >> /\ source' = << >>

\* C22: (as specified) when a run, online or offline, truncates the source
\* file, it has read every line the file holds at that moment: no line the
\* proxy appended after the run's last read is discarded
C22_TruncateAfterRead ==
  [][\A r \in Runs :
       (SourceTruncated /\ run'[r] # run[r]) => run[r].pos = Len(source)]_vars

\* C23: (as specified) with no failure injected, runs that repeat or overlap
\* load each record the proxy wrote at most once, and leave one dimension
\* row per natural key; the partitions are a set of dates
C23_Idempotent ==
  ~faulted =>
    /\ Len(facts) <= Len(written)
    /\ \A t \in Tables : UniqueRows(dims[t])

\* the record of a self-call: both tags the sentinel, no destination
IsSelfCallRecord(data) ==
  /\ data["inbound_tag"] = "api" /\ data["outbound_tag"] = "api"
  /\ data["dest_host"] = None /\ data["dest_port"] = None
  /\ data["dest_protocol"] = None

\* C24: (as specified) a line that contains 'api -> api' gives the self-call
\* record, whether or not LINE_RE matches it: so is the record a DB-mode run
\* holds for such a line, and the record an offline run wrote for it
C24_SelfCall ==
  /\ \A r \in Runs :
       ( /\ run[r].phase = "fresh"
         /\ run[r].pc \in {"ensure", "resolve", "insert"}
         /\ source[run[r].pos].marker ) => IsSelfCallRecord(run[r].cur)
  /\ \A i \in 1..Len(origin) :
       origin[i].marker => IsSelfCallRecord(Loads(buffer[i]))

\* the part of C24 the code keeps: the lines LINE_RE does not match
C24_UnmatchedOnly ==
  /\ \A r \in Runs :
       ( /\ run[r].phase = "fresh"
         /\ run[r].pc \in {"ensure", "resolve", "insert"}
         /\ source[run[r].pos].marker /\ ~source[run[r].pos].re ) =>
           IsSelfCallRecord(run[r].cur)
  /\ \A i \in 1..Len(origin) :
       (origin[i].marker /\ ~origin[i].re) => IsSelfCallRecord(Loads(buffer[i]))

\* C25: (as specified) replay and fresh parsing fill one batch: when a run is
\* about to issue an insert statement, every statement it issued before
\* carried exactly BATCH_SIZE rows, so the rows inserted so far are a
\* multiple of BATCH_SIZE
C25_OneBatch ==
  \A r \in Runs :
    run[r].pc \in {"flush", "flush_final"} =>
      Len(run[r].txFacts) % BATCH_SIZE = 0

\* the list the loop of the run's phase appends to
Pending(rr) == IF rr.phase = "replay" THEN rr.batch ELSE rr.log_batch

\* C26: while a run reads, its pending batch holds fewer than BATCH_SIZE
\* rows; an insert statement carries at least one row and at most BATCH_SIZE,
\* and exactly BATCH_SIZE when the threshold test issued it; at the commit
\* every row of a loadable record of the buffer and of the source file has
\* been inserted
C26_BatchBound ==
  \A r \in Runs :
    /\ (run[r].pc = "read" /\ run[r].tx = "open") =>
         Len(Pending(run[r])) < BATCH_SIZE
    /\ run[r].pc \in {"flush", "flush_final"} =>
         /\ Len(Pending(run[r])) >= 1
         /\ Len(Pending(run[r])) <= BATCH_SIZE
    /\ run[r].pc = "flush" => Len(Pending(run[r])) = BATCH_SIZE
    /\ run[r].pc = "commit" =>
         Len(run[r].txFacts) =
           Len(BufEvents(run[r].pre.buffer)) + Len(LineEvents(run[r].pre.source))

\* a run without a buffer filled its batch to the threshold, inserted it,
\* found the file at its end with the batch empty, and is at the commit
C26_Witness ==
  \E r \in Runs :
    /\ run[r].pc = "commit"
    /\ run[r].pre.buffer = << >>
    /\ Len(run[r].txFacts) = BATCH_SIZE
    /\ run[r].log_batch = << >>

\* the ids of the row are NULL or ids of committed rows of their tables
Referenced(row) ==
  \A k \in 1..Len(ResolveCalls) :
    RowIds(row)[k] # NULL =>
      \E d \in dims[ResolveCalls[k].table] : d.id = RowIds(row)[k]

\* C27: dimension rows and partitions are created inside the transaction of
\* the run: when a run that failed before its commit has ended, the committed
\* dimension tables and partitions are those of its start, and every id of a
\* committed logs row is the id of a committed dimension row
C27_DimsInTransaction ==
  /\ \A r \in Runs :
       (run[r].mode = "db" /\ Ended(r) /\ run[r].err \notin {"none", "OSError"}) =>
         /\ dims = run[r].pre.dims
         /\ parts = run[r].pre.parts
  /\ \A i \in 1..Len(facts) : Referenced(facts[i])

\* a run over a partitioned table drew an id for a new dimension row, then
\* failed and ended, over a store that holds a logs row with a dimension id
C27_Witness ==
  \E r \in Runs :
    /\ run[r].pc = "done" /\ run[r].mode = "db"
    /\ run[r].err = "StoreError"
    /\ run[r].isPartitioned
    /\ seqv # run[r].pre.seqv
    /\ facts # << >> /\ facts[1].protocol_id # NULL

NonBlank(bline) == bline.kind # "blank"

\* C28: when a DB-mode run that committed has ended, processed + failed is
\* the number of non-blank lines of the buffer plus the number of lines of
\* the source file it read; when an offline run has ended, processed + failed
\* is the number of source lines and processed the number of records it
\* appended to the buffer
C28_CounterAccounting ==
  \A r \in Runs :
    run[r].pc = "done" =>
      /\ (run[r].mode = "db" /\ run[r].tx = "committed") =>
           run[r].stats.processed + run[r].stats.failed =
             Len(SelectSeq(run[r].pre.buffer, NonBlank)) + Len(run[r].pre.source)
      /\ run[r].mode = "offline" =>
           /\ run[r].stats.processed + run[r].stats.failed = Len(run[r].pre.source)
           /\ run[r].stats.processed = Len(buffer) - Len(run[r].pre.buffer)

\* a run that committed counted a record of the buffer as failed and a line
\* of the source file as processed
C28_Witness ==
  \E r \in Runs :
    /\ run[r].pc = "done" /\ run[r].mode = "db" /\ run[r].tx = "committed"
    /\ run[r].pre.buffer # << >> /\ ~BufLoadable(run[r].pre.buffer[1])
    /\ run[r].stats.failed = 1
    /\ run[r].stats.processed = 1

\* C29: (as specified) the statistics a DB-mode run reports count what the
\* run committed: processed is the number of logs rows it added to the store,
\* and the count of each dimension table the number of rows it added to that
\* table; all are 0 for a run that rolled back
C29_ReportedIsCommitted ==
  \A r \in Runs :
    (run[r].pc = "done" /\ run[r].mode = "db") =>
      /\ run[r].report.processed = Len(facts) - Len(run[r].pre.facts)
      /\ \A t \in Tables :
           run[r].report[t] = Cardinality(dims[t] \ run[r].pre.dims[t])

\* C30: (as specified) a DB-mode run whose transaction committed does not
\* take the error path and ends with the source file and the buffer empty,
\* also when a truncation fails after the commit
C30_CommitImpliesSuccess ==
  \A r \in Runs :
    /\ run[r].pc = "rollback" => run[r].tx # "committed"
    /\ (run[r].mode = "db" /\ run[r].tx = "committed" /\ Ended(r)) =>
         /\ run[r].err = "none"
         /\ source = << >> /\ buffer = << >>

\* invocation r is over: it returned, or an exception ended its process
Over(r) == run[r].pc \in {"done", "crashed"}

\* C31: (as specified) when a run is over, however it ended, the records it
\* appended to the buffer are records of lines that are no longer in the
\* source file: if the buffer grew, the source file was emptied
C31_ExclusiveHandoff ==
  \A r \in Runs :
    (Over(r) /\ Len(buffer) > Len(run[r].pre.buffer)) => source = << >>

\* C32: a run that started is over after finitely many steps; a DB-mode run
\* that is over has no open transaction (it committed, or rolled back, or
\* failed on its first statement before any transaction began) and a closed
\* connection; a connection is closed from the open state only and is not
\* used again by the run
C32_TerminatesResolved ==
  /\ \A r \in Runs : (run[r].pc # "idle") ~> Over(r)
  /\ [](\A r \in Runs :
          (Over(r) /\ run[r].mode = "db") =>
            /\ run[r].conn = "closed"
            /\ \/ run[r].tx \in {"committed", "rolledback"}
               \/ run[r].tx = "none" /\ run[r].err = "StoreError")
  /\ [][\A r \in Runs :
          /\ (run'[r].conn = "closed" /\ run[r].conn # "closed") =>
               (run[r].conn = "open" /\ run[r].pc = "close")
          /\ run[r].conn = "closed" => run'[r].conn \in {"closed", "none"}]_vars

\* a DB-mode run that met a store error after its first batch is over,
\* rolled back, its connection closed
C32_Witness ==
  \E r \in Runs :
    /\ Over(r) /\ run[r].mode = "db"
    /\ run[r].err = "StoreError"
    /\ run[r].stats.processed > 0
    /\ run[r].tx = "rolledback" /\ run[r].conn = "closed"

=============================================================================
